---- MODULE Spec2Model ----
(***************************************************************************)
(* Model of queue_bot.py: the roster store, the group-overlap detector,    *)
(* the change tracker, the alert formatter, the polling loop and the       *)
(* operator commands, as tasks of one cooperative scheduler that switch    *)
(* only at the awaits of the code.                                         *)
(***************************************************************************)
EXTENDS Integers, Sequences, FiniteSets, TLC

(***************************************************************************)
(* Bounds of the model.                                                    *)
(***************************************************************************)
\* longest queue snapshot the queue service returns
MaxQueue == 2
\* number of ready events the chat platform delivers (each starts a loop task)
MaxReady == 2
\* longest list of netids given to the detector and the change tracker alone
MaxNetids == 3
\* data rows of a generated roster source, and cells in all its rows together
MaxRows == 2
MaxCells == 3

(***************************************************************************)
(* Program constants.                                                      *)
(***************************************************************************)
DEFAULT_CHECK_INTERVAL == 300
MIN_INTERVAL == 60
HTTP_OK == 200

\* Python's None, as returned by extract_netid for a question without a netid
None == "None"

\* Python's empty dict: the overlap mappings are kept in insertion order, as a
\* sequence of [group_id, members] entries
EmptyDict == <<>>

(***************************************************************************)
(* Values the environment can supply.                                      *)
(***************************************************************************)
NetIds == {"a", "b", "c"}

\* a roster cell: its text and whether whitespace surrounds it
Cell(text, pad) == [text |-> text, pad |-> pad]

\* a roster source: its data rows (the header row is dropped by the loader),
\* and whether reading raises after `at` data rows were processed (at = 0:
\* the file cannot be opened or has no header row)
Source(rows, raises, at) == [rows |-> rows, raises |-> raises, at |-> at]

RowsABC == << <<Cell("a", FALSE), Cell("b", FALSE), Cell("c", FALSE)>> >>
RowsE2E == << <<Cell("a", FALSE), Cell("b", FALSE)>>, <<Cell("c", FALSE)>> >>
RowsDup == << <<Cell("A", FALSE), Cell("b", TRUE)>>,
              <<Cell("", FALSE), Cell("", TRUE)>>,
              <<Cell("B", TRUE), Cell("", FALSE), Cell("c", FALSE)>> >>

Sources ==
    { Source(RowsABC, FALSE, 0),
      Source(RowsE2E, FALSE, 0),
      Source(RowsDup, FALSE, 0),
      Source(RowsE2E, TRUE, 0),
      Source(RowsE2E, TRUE, 1) }

\* a question of the queue service: the netid of its asker, or None when the
\* record has no askedBy / netid
Question(netid) == [askedBy |-> netid]
Questions == { Question(n) : n \in NetIds \cup {None} }

RECURSIVE SeqsUpTo(_, _)
SeqsUpTo(S, n) ==
    IF n = 0 THEN { <<>> }
    ELSE LET shorter == SeqsUpTo(S, n - 1)
         IN  shorter \cup { Append(s, x) : s \in { q \in shorter : Len(q) = n - 1 }, x \in S }

Snapshots == SeqsUpTo(Questions, MaxQueue)

\* what requests.get does: a response with a status and a JSON body, or an
\* exception (raised = TRUE)
Response(status, body, raised) == [status |-> status, body |-> body, raised |-> raised]
Responses ==
    { Response(HTTP_OK, s, FALSE) : s \in Snapshots }
    \cup { Response(HTTP_OK + 300, <<Question("a"), Question("b")>>, FALSE),
           Response(HTTP_OK, <<>>, TRUE) }

Range(s) == { s[i] : i \in DOMAIN s }

(***************************************************************************)
(* Dict helpers: an insertion-ordered mapping group_id -> members.         *)
(***************************************************************************)
Keys(d) == { d[i].group_id : i \in DOMAIN d }
Get(d, k) == (CHOOSE i \in DOMAIN d : d[i].group_id = k)
Lookup(d, k) == d[Get(d, k)].members

(***************************************************************************)
(* get_questions_for_queue: the value the fetcher returns, and whether an  *)
(* exception leaves it.                                                    *)
(***************************************************************************)
\* mutant: the status of the response is not checked
get_questions_unchecked(resp) ==
    IF resp.raised THEN [raised |-> FALSE, value |-> <<>>]
    ELSE [raised |-> FALSE, value |-> resp.body]

get_questions_for_queue(resp) ==
    IF resp.raised THEN [raised |-> FALSE, value |-> <<>>]
    ELSE IF resp.status = HTTP_OK THEN [raised |-> FALSE, value |-> resp.body]
    ELSE [raised |-> FALSE, value |-> <<>>]

(***************************************************************************)
(* extract_netid and the extraction loop of the callers.                   *)
(***************************************************************************)
extract_netid(question) == question.askedBy

RECURSIVE extract_netids(_)
extract_netids(questions) ==
    IF questions = <<>> THEN <<>>
    ELSE LET netid == extract_netid(Head(questions))
             rest == extract_netids(Tail(questions))
         IN  IF netid # None THEN <<netid>> \o rest ELSE rest

(***************************************************************************)
(* load_groups_from_csv                                                    *)
(***************************************************************************)
strip(cell) == cell.text

lower(s) ==
    CASE s = "A" -> "a"
      [] s = "B" -> "b"
      [] s = "C" -> "c"
      [] OTHER -> s

\* the cells loop of one row: the members of the row and the updated
\* netid -> group view
RECURSIVE load_row(_, _, _, _)
load_row(row, group_id, members, n2g) ==
    IF row = <<>> THEN [members |-> members, n2g |-> n2g]
    ELSE LET cell == Head(row)
         IN  IF strip(cell) # ""
             THEN LET netid == lower(strip(cell))
                  IN  load_row(Tail(row), group_id, Append(members, netid),
                               (netid :> group_id) @@ n2g)
             ELSE load_row(Tail(row), group_id, members, n2g)

\* mutant: a group is added only when its row has several members
keep_group_of_several(members) == Len(members) > 1

\* line 104: only add the group if it has members
keep_group(members) == members # <<>>

\* the rows loop: rows group_idx .. last are still to be read
RECURSIVE load_rows(_, _, _, _, _)
load_rows(rows, group_idx, last, n2g, g2m) ==
    IF group_idx > last THEN [n2g |-> n2g, g2m |-> g2m]
    ELSE LET r == load_row(rows[group_idx], group_idx, <<>>, n2g)
         IN  load_rows(rows, group_idx + 1, last, r.n2g,
                       IF keep_group(r.members)
                       THEN (group_idx :> r.members) @@ g2m
                       ELSE g2m)

\* an exception ends the loop; the except clause returns what was built so far
load_groups_from_csv(src) ==
    load_rows(src.rows, 1, IF src.raises THEN src.at ELSE Len(src.rows), <<>>, <<>>)

(***************************************************************************)
(* check_group_members_in_queue                                            *)
(***************************************************************************)
\* mutant: an identifier already in the list of its group is not appended again
add_member_once(d, group_id, netid) ==
    IF group_id \in Keys(d)
    THEN IF netid \in Range(Lookup(d, group_id))
         THEN d
         ELSE [d EXCEPT ![Get(d, group_id)].members = Append(@, netid)]
    ELSE Append(d, [group_id |-> group_id, members |-> <<netid>>])

add_member(d, group_id, netid) ==
    IF group_id \in Keys(d)
    THEN [d EXCEPT ![Get(d, group_id)].members = Append(@, netid)]
    ELSE Append(d, [group_id |-> group_id, members |-> <<netid>>])

RECURSIVE collect_members(_, _, _)
collect_members(netids, n2g, d) ==
    IF netids = <<>> THEN d
    ELSE LET netid == Head(netids)
         IN  IF netid \in DOMAIN n2g
             THEN collect_members(Tail(netids), n2g, add_member(d, n2g[netid], netid))
             ELSE collect_members(Tail(netids), n2g, d)

\* mutant: the filter keeps a group from its first member on
multiple_members_from_one(members) == Len(members) > 0

\* line 137: filter out groups with only one member in the queue
multiple_members(members) == Len(members) > 1

check_group_members_in_queue(netids, n2g, g2m) ==
    SelectSeq(collect_members(netids, n2g, EmptyDict),
              LAMBDA e : multiple_members(e.members))

(***************************************************************************)
(* The change tracker, lines 230-242 of check_queue_for_groups.            *)
(***************************************************************************)
\* mutant: a group is new only when its member set grew
is_new_group_when_grown(group_id, members, previous) ==
    IF group_id \notin Keys(previous) THEN TRUE
    ELSE Cardinality(Range(members)) > Cardinality(Range(Lookup(previous, group_id)))

is_new_group(group_id, members, previous) ==
    IF group_id \notin Keys(previous) THEN TRUE
    ELSE LET prev_members == Range(Lookup(previous, group_id))
             current_members == Range(members)
         IN  ~(current_members \subseteq prev_members)

new_groups_of(groups_in_queue, previous) ==
    SelectSeq(groups_in_queue, LAMBDA e : is_new_group(e.group_id, e.members, previous))

(***************************************************************************)
(* format_groups_message: the message as its sequence of lines.            *)
(***************************************************************************)
NO_GROUPS_MESSAGE == << [kind |-> "no_groups"] >>

\* mutant: the second line lists every roster member of the group
format_block_all_members(e, g2m) ==
    LET all_members == IF e.group_id \in DOMAIN g2m THEN g2m[e.group_id] ELSE <<>>
    IN  << [kind |-> "group", group_id |-> e.group_id, members |-> <<>>],
           [kind |-> "in_queue", group_id |-> e.group_id, members |-> e.members] >>
        \o (IF all_members # <<>>
            THEN << [kind |-> "not_in_queue", group_id |-> e.group_id,
                     members |-> all_members] >>
            ELSE <<>>)

format_block(e, g2m) ==
    LET all_members == IF e.group_id \in DOMAIN g2m THEN g2m[e.group_id] ELSE <<>>
        not_in_queue == SelectSeq(all_members, LAMBDA m : m \notin Range(e.members))
    IN  << [kind |-> "group", group_id |-> e.group_id, members |-> <<>>],
           [kind |-> "in_queue", group_id |-> e.group_id, members |-> e.members] >>
        \o (IF not_in_queue # <<>>
            THEN << [kind |-> "not_in_queue", group_id |-> e.group_id,
                     members |-> not_in_queue] >>
            ELSE <<>>)

RECURSIVE format_blocks(_, _)
format_blocks(groups, g2m) ==
    IF groups = <<>> THEN <<>>
    ELSE format_block(Head(groups), g2m) \o format_blocks(Tail(groups), g2m)

format_groups_message(groups_in_queue, g2m) ==
    IF groups_in_queue = EmptyDict THEN NO_GROUPS_MESSAGE
    ELSE << [kind |-> "header"] >> \o format_blocks(groups_in_queue, g2m)

(***************************************************************************)
(* State.                                                                  *)
(***************************************************************************)
VARIABLES
    netid_to_group,             \* global, line 32
    group_to_members,           \* global, line 33
    previous_groups_in_queue,   \* global, line 35
    CHECK_INTERVAL,             \* global, line 22
    DEFAULT_QUEUE_ID,           \* environment: "" when unset
    ALERT_CHANNEL_ID,           \* environment: 0 when unset
    nready,                     \* ready events delivered so far
    pc,                         \* where each polling-loop task is suspended
    frame,                      \* locals of check_queue_for_groups across the send
    cmd,                        \* the check-queue command task
    obs,                        \* history: what the latest polling fetch led to
    call                        \* the scenario or the function call under study

roster_vars == <<netid_to_group, group_to_members>>
env_vars == <<DEFAULT_QUEUE_ID, ALERT_CHANNEL_ID>>
loop_vars == <<nready, pc, frame>>
vars == <<netid_to_group, group_to_members, previous_groups_in_queue, CHECK_INTERVAL,
          DEFAULT_QUEUE_ID, ALERT_CHANNEL_ID, nready, pc, frame, cmd, obs, call>>
sys_vars == <<netid_to_group, group_to_members, previous_groups_in_queue, CHECK_INTERVAL,
              DEFAULT_QUEUE_ID, ALERT_CHANNEL_ID, nready, pc, frame, cmd, obs>>

Tasks == 1 .. MaxReady

NoFrame == [groups_in_queue |-> EmptyDict, message |-> <<>>]
NoObs == [fetch |-> "none", overlap |-> EmptyDict, new_groups |-> EmptyDict]
CmdIdle == [pc |-> "idle", netids |-> <<>>, message |-> <<>>]
NoCall == [fn |-> "none", args |-> <<>>, result |-> <<>>, done |-> FALSE]
Call(fn, args) == [fn |-> fn, args |-> args, result |-> <<>>, done |-> FALSE]

\* the state after the module is loaded, lines 22-35, when the environment
\* sets the polling interval to `interval`
StartWith(interval) ==
    /\ netid_to_group = <<>>
    /\ group_to_members = <<>>
    /\ previous_groups_in_queue = EmptyDict
    /\ CHECK_INTERVAL = interval
    /\ DEFAULT_QUEUE_ID \in {"", "q"}
    /\ ALERT_CHANNEL_ID \in {0, 1}
    /\ nready = 0
    /\ pc = [t \in Tasks |-> "none"]
    /\ frame = [t \in Tasks |-> NoFrame]
    /\ cmd = CmdIdle
    /\ obs = NoObs

\* the environment does not set the polling interval
Start == StartWith(DEFAULT_CHECK_INTERVAL)

Init == Start /\ call = NoCall

(***************************************************************************)
(* on_ready, lines 164-174: load the roster and create a polling task,     *)
(* which runs up to its first await when the scheduler next picks it.      *)
(***************************************************************************)
on_ready(src) ==
    /\ nready < MaxReady
    /\ LET loaded == load_groups_from_csv(src)
       IN  /\ netid_to_group' = loaded.n2g
           /\ group_to_members' = loaded.g2m
    /\ nready' = nready + 1
    /\ pc' = [pc EXCEPT ![nready + 1] = "run"]
    /\ UNCHANGED <<previous_groups_in_queue, CHECK_INTERVAL, env_vars, frame, cmd, obs>>

(***************************************************************************)
(* check_queue_periodically, lines 181-188, up to the first await: the     *)
(* gate on the roster, then check_queue_for_groups up to the fetch.        *)
(***************************************************************************)
\* mutant: the iteration does not look at the roster
loop_iteration_ungated(t) ==
    /\ pc[t] = "run"
    /\ IF DEFAULT_QUEUE_ID # ""
       THEN pc' = [pc EXCEPT ![t] = "fetch"]
       ELSE pc' = [pc EXCEPT ![t] = "sleep"]
    /\ UNCHANGED <<roster_vars, previous_groups_in_queue, CHECK_INTERVAL, env_vars,
                   nready, frame, cmd, obs>>

loop_iteration(t) ==
    /\ pc[t] = "run"
    /\ IF group_to_members # <<>> /\ DEFAULT_QUEUE_ID # ""
       THEN pc' = [pc EXCEPT ![t] = "fetch"]
       ELSE pc' = [pc EXCEPT ![t] = "sleep"]
    /\ UNCHANGED <<roster_vars, previous_groups_in_queue, CHECK_INTERVAL, env_vars,
                   nready, frame, cmd, obs>>

(***************************************************************************)
(* check_queue_for_groups from the return of the fetch (line 208) to its   *)
(* next await (the send of line 251) or to its end (line 256).  `found`    *)
(* is whether bot.get_channel finds the channel.                           *)
(***************************************************************************)
\* mutant: the cycle alerts whether or not the change tracker found a group
has_new_groups_always(new_groups) == TRUE

\* line 245: if new_groups
has_new_groups(new_groups) == new_groups # EmptyDict

fetch_return(t, resp, found) ==
    /\ pc[t] = "fetch"
    /\ LET fetched == get_questions_for_queue(resp)
           questions == fetched.value
           kind == IF resp.raised THEN "exception"
                   ELSE IF resp.status = HTTP_OK THEN "ok" ELSE "status"
           netids == extract_netids(questions)
           groups_in_queue ==
               check_group_members_in_queue(netids, netid_to_group, group_to_members)
           new_groups == new_groups_of(groups_in_queue, previous_groups_in_queue)
       IN  IF fetched.raised
           THEN \* the exception reaches the except clause of the loop, line 190
                /\ pc' = [pc EXCEPT ![t] = "recover"]
                /\ obs' = [fetch |-> kind, overlap |-> EmptyDict, new_groups |-> EmptyDict]
                /\ UNCHANGED <<previous_groups_in_queue, frame>>
           ELSE IF questions = <<>>
           THEN \* line 212: early return
                /\ pc' = [pc EXCEPT ![t] = "sleep"]
                /\ obs' = [fetch |-> kind, overlap |-> EmptyDict, new_groups |-> EmptyDict]
                /\ UNCHANGED <<previous_groups_in_queue, frame>>
           ELSE /\ obs' = [fetch |-> kind, overlap |-> groups_in_queue,
                           new_groups |-> new_groups]
                /\ IF has_new_groups(new_groups) /\ ALERT_CHANNEL_ID > 0 /\ found
                   THEN /\ pc' = [pc EXCEPT ![t] = "send"]
                        /\ frame' = [frame EXCEPT ![t] =
                               [groups_in_queue |-> groups_in_queue,
                                message |-> format_groups_message(new_groups,
                                                                  group_to_members)]]
                        /\ UNCHANGED previous_groups_in_queue
                   ELSE /\ pc' = [pc EXCEPT ![t] = "sleep"]
                        /\ previous_groups_in_queue' = groups_in_queue
                        /\ UNCHANGED frame
    /\ UNCHANGED <<roster_vars, CHECK_INTERVAL, env_vars, nready, cmd>>

(***************************************************************************)
(* The return of channel.send, line 251: on success line 256 replaces the  *)
(* previous state; an exception leaves check_queue_for_groups and is       *)
(* caught at line 190.                                                     *)
(***************************************************************************)
\* mutant: the exception of the send is not caught and ends the task
send_return_uncaught(t, ok) ==
    /\ pc[t] = "send"
    /\ IF ok
       THEN /\ previous_groups_in_queue' = frame[t].groups_in_queue
            /\ pc' = [pc EXCEPT ![t] = "sleep"]
       ELSE /\ UNCHANGED previous_groups_in_queue
            /\ pc' = [pc EXCEPT ![t] = "none"]
    /\ frame' = [frame EXCEPT ![t] = NoFrame]
    /\ UNCHANGED <<roster_vars, CHECK_INTERVAL, env_vars, nready, cmd, obs>>

send_return(t, ok) ==
    /\ pc[t] = "send"
    /\ IF ok
       THEN /\ previous_groups_in_queue' = frame[t].groups_in_queue
            /\ pc' = [pc EXCEPT ![t] = "sleep"]
       ELSE /\ UNCHANGED previous_groups_in_queue
            /\ pc' = [pc EXCEPT ![t] = "recover"]
    /\ frame' = [frame EXCEPT ![t] = NoFrame]
    /\ UNCHANGED <<roster_vars, CHECK_INTERVAL, env_vars, nready, cmd, obs>>

(***************************************************************************)
(* The end of asyncio.sleep, lines 188 and 192: the task is scheduled and  *)
(* starts the next iteration of the while loop.                            *)
(***************************************************************************)
timer_expiry(t) ==
    /\ pc[t] \in {"sleep", "recover"}
    /\ pc' = [pc EXCEPT ![t] = "run"]
    /\ UNCHANGED <<roster_vars, previous_groups_in_queue, CHECK_INTERVAL, env_vars,
                   nready, frame, cmd, obs>>

(***************************************************************************)
(* reload_groups_command, lines 357-373: the load and the assignment of    *)
(* both globals happen with no await between them (line 370).              *)
(***************************************************************************)
\* mutant: the task is suspended between the two assignments of line 370
reload_groups_suspended(src) ==
    /\ netid_to_group' = load_groups_from_csv(src).n2g
    /\ UNCHANGED <<group_to_members, previous_groups_in_queue, CHECK_INTERVAL, env_vars,
                   loop_vars, cmd, obs>>

reload_groups_command(src) ==
    /\ LET loaded == load_groups_from_csv(src)
       IN  /\ netid_to_group' = loaded.n2g
           /\ group_to_members' = loaded.g2m
    /\ UNCHANGED <<previous_groups_in_queue, CHECK_INTERVAL, env_vars, loop_vars, cmd, obs>>

(***************************************************************************)
(* check_queue_command, lines 269-322.  The command task is suspended at   *)
(* the fetch (line 286), at the send of line 306 (holding netids) and at   *)
(* the send of line 316 (holding message).                                 *)
(***************************************************************************)
check_queue_command(queue_id) ==
    /\ cmd.pc = "idle"
    /\ LET qid == IF queue_id = "" THEN DEFAULT_QUEUE_ID ELSE queue_id
       IN  IF qid = ""
           THEN UNCHANGED cmd
           ELSE cmd' = [cmd EXCEPT !.pc = "fetch"]
    /\ UNCHANGED <<roster_vars, previous_groups_in_queue, CHECK_INTERVAL, env_vars,
                   loop_vars, obs>>

\* mutant: an on-demand check that finds no questions clears the previous state
cmd_fetch_clears(resp) ==
    /\ cmd.pc = "fetch"
    /\ LET fetched == get_questions_for_queue(resp)
           questions == fetched.value
       IN  IF fetched.raised \/ questions = <<>>
           THEN cmd' = CmdIdle /\ previous_groups_in_queue' = EmptyDict
           ELSE /\ cmd' = [pc |-> "found", netids |-> extract_netids(questions),
                           message |-> <<>>]
                /\ UNCHANGED previous_groups_in_queue
    /\ UNCHANGED <<roster_vars, CHECK_INTERVAL, env_vars, loop_vars, obs>>

cmd_fetch_return(resp) ==
    /\ cmd.pc = "fetch"
    /\ LET fetched == get_questions_for_queue(resp)
           questions == fetched.value
       IN  IF fetched.raised \/ questions = <<>>
           THEN cmd' = CmdIdle
           ELSE cmd' = [pc |-> "found", netids |-> extract_netids(questions),
                        message |-> <<>>]
    /\ UNCHANGED <<roster_vars, previous_groups_in_queue, CHECK_INTERVAL, env_vars,
                   loop_vars, obs>>

\* mutant: the on-demand check records its overlap result as the previous state
cmd_detect_tracks ==
    /\ cmd.pc = "found"
    /\ LET groups_in_queue ==
               check_group_members_in_queue(cmd.netids, netid_to_group, group_to_members)
       IN  /\ cmd' = [pc |-> "reply", netids |-> <<>>,
                      message |-> format_groups_message(groups_in_queue, group_to_members)]
           /\ previous_groups_in_queue' = groups_in_queue
    /\ UNCHANGED <<roster_vars, CHECK_INTERVAL, env_vars, loop_vars, obs>>

\* lines 308-314, between the await of line 306 and the await of line 316
cmd_detect ==
    /\ cmd.pc = "found"
    /\ LET groups_in_queue ==
               check_group_members_in_queue(cmd.netids, netid_to_group, group_to_members)
       IN  cmd' = [pc |-> "reply", netids |-> <<>>,
                   message |-> format_groups_message(groups_in_queue, group_to_members)]
    /\ UNCHANGED <<roster_vars, previous_groups_in_queue, CHECK_INTERVAL, env_vars,
                   loop_vars, obs>>

\* the return of the send of line 316; what follows touches no shared state
cmd_reply_sent ==
    /\ cmd.pc = "reply"
    /\ cmd' = CmdIdle
    /\ UNCHANGED <<roster_vars, previous_groups_in_queue, CHECK_INTERVAL, env_vars,
                   loop_vars, obs>>

(***************************************************************************)
(* set_interval_command, lines 377-389.                                    *)
(***************************************************************************)
\* mutant: a request below the floor sets the interval to the floor
set_interval_clamped(seconds) ==
    /\ IF seconds < MIN_INTERVAL
       THEN CHECK_INTERVAL' = MIN_INTERVAL
       ELSE CHECK_INTERVAL' = seconds
    /\ UNCHANGED <<roster_vars, previous_groups_in_queue, env_vars, loop_vars, cmd, obs>>

set_interval_command(seconds) ==
    /\ IF seconds < MIN_INTERVAL
       THEN UNCHANGED CHECK_INTERVAL
       ELSE CHECK_INTERVAL' = seconds
    /\ UNCHANGED <<roster_vars, previous_groups_in_queue, env_vars, loop_vars, cmd, obs>>

(***************************************************************************)
(* Spec: the polling side.  One ready event; the queue service answers     *)
(* each fetch with any snapshot of at most MaxQueue questions, a           *)
(* non-success status or an exception; the roster is reloaded from any     *)
(* source of Sources at any suspension point.                              *)
(***************************************************************************)
Next ==
    \/ \E src \in Sources : nready = 0 /\ on_ready(src) /\ UNCHANGED call
    \/ \E t \in Tasks : loop_iteration(t) /\ UNCHANGED call
    \/ \E t \in Tasks, resp \in Responses, found \in BOOLEAN :
           fetch_return(t, resp, found) /\ UNCHANGED call
    \/ \E t \in Tasks, ok \in BOOLEAN : send_return(t, ok) /\ UNCHANGED call
    \/ \E t \in Tasks : timer_expiry(t) /\ UNCHANGED call
    \/ \E src \in Sources : reload_groups_command(src) /\ UNCHANGED call

Spec == Init /\ [][Next]_vars

(***************************************************************************)
(* SpecCommands: every handler.  The commands see the full Responses; the  *)
(* polling loop is answered from LoopResponses.                            *)
(***************************************************************************)
LoopResponses ==
    { Response(HTTP_OK, <<Question("a"), Question("b")>>, FALSE),
      Response(HTTP_OK, <<Question("a"), Question("c")>>, FALSE),
      Response(HTTP_OK, <<>>, FALSE),
      Response(HTTP_OK + 300, <<>>, FALSE),
      Response(HTTP_OK, <<>>, TRUE) }

Seconds == { MIN_INTERVAL - 1, MIN_INTERVAL }

NextCommands ==
    \/ \E src \in Sources : nready = 0 /\ on_ready(src) /\ UNCHANGED call
    \/ \E t \in Tasks : loop_iteration(t) /\ UNCHANGED call
    \/ \E t \in Tasks, resp \in LoopResponses, found \in BOOLEAN :
           fetch_return(t, resp, found) /\ UNCHANGED call
    \/ \E t \in Tasks, ok \in BOOLEAN : send_return(t, ok) /\ UNCHANGED call
    \/ \E t \in Tasks : timer_expiry(t) /\ UNCHANGED call
    \/ \E src \in Sources : reload_groups_command(src) /\ UNCHANGED call
    \/ \E queue_id \in {"", "q"} : check_queue_command(queue_id) /\ UNCHANGED call
    \/ \E resp \in Responses : cmd_fetch_return(resp) /\ UNCHANGED call
    \/ cmd_detect /\ UNCHANGED call
    \/ cmd_reply_sent /\ UNCHANGED call
    \/ \E seconds \in Seconds : set_interval_command(seconds) /\ UNCHANGED call

SpecCommands == Init /\ [][NextCommands]_vars

(***************************************************************************)
(* FairSpec: the polling loop answered from LoopResponses, the roster      *)
(* reloaded at any suspension point, under the scheduling the event loop   *)
(* gives a task: a sleep ends, a scheduled task runs, and an awaited fetch *)
(* or send returns or raises.                                              *)
(***************************************************************************)
NextFair ==
    \/ \E src \in Sources : nready = 0 /\ on_ready(src) /\ UNCHANGED call
    \/ \E t \in Tasks : loop_iteration(t) /\ UNCHANGED call
    \/ \E t \in Tasks, resp \in LoopResponses, found \in BOOLEAN :
           fetch_return(t, resp, found) /\ UNCHANGED call
    \/ \E t \in Tasks, ok \in BOOLEAN : send_return(t, ok) /\ UNCHANGED call
    \/ \E t \in Tasks : timer_expiry(t) /\ UNCHANGED call
    \/ \E src \in Sources : reload_groups_command(src) /\ UNCHANGED call

Fairness ==
    \A t \in Tasks :
        /\ WF_vars(timer_expiry(t) /\ UNCHANGED call)
        /\ WF_vars(loop_iteration(t) /\ UNCHANGED call)
        /\ WF_vars(\E resp \in LoopResponses, found \in BOOLEAN :
                       fetch_return(t, resp, found) /\ UNCHANGED call)
        /\ WF_vars(\E ok \in BOOLEAN : send_return(t, ok) /\ UNCHANGED call)

FairSpec == Init /\ [][NextFair]_vars /\ Fairness

(***************************************************************************)
(* SpecRepeat: the queue holds one snapshot, call.args, for the whole      *)
(* behaviour and the roster is loaded once: every polling cycle observes   *)
(* the same snapshot under the same roster.                                *)
(***************************************************************************)
InitRepeat == Start /\ call \in { Call("queue", s) : s \in Snapshots }

NextRepeat ==
    \/ \E src \in Sources : nready = 0 /\ on_ready(src) /\ UNCHANGED call
    \/ \E t \in Tasks : loop_iteration(t) /\ UNCHANGED call
    \/ \E t \in Tasks, found \in BOOLEAN :
           fetch_return(t, Response(HTTP_OK, call.args, FALSE), found) /\ UNCHANGED call
    \/ \E t \in Tasks, ok \in BOOLEAN : send_return(t, ok) /\ UNCHANGED call
    \/ \E t \in Tasks : timer_expiry(t) /\ UNCHANGED call

SpecRepeat == InitRepeat /\ [][NextRepeat]_vars

(***************************************************************************)
(* SpecRoster: the roster store under every source of GeneratedSources.    *)
(* call.args is the source under study: it is loaded at startup, or by a   *)
(* reload after a startup that loaded a good roster.                       *)
(***************************************************************************)
CellValues == { Cell("a", FALSE), Cell("B", TRUE), Cell("", TRUE) }

\* the lists of at most `rows` rows that hold at most `cells` cells together
RECURSIVE RowListsOf(_, _)
RowListsOf(rows, cells) ==
    IF rows = 0 THEN { <<>> }
    ELSE { <<>> } \cup
         UNION { { <<r>> \o rest : rest \in RowListsOf(rows - 1, cells - Len(r)) } :
                   r \in SeqsUpTo(CellValues, cells) }

RowLists == RowListsOf(MaxRows, MaxCells)
GeneratedSources ==
    { Source(rows, FALSE, 0) : rows \in RowLists }
    \cup UNION { { Source(rows, TRUE, at) : at \in 0 .. Len(rows) } : rows \in RowLists }

GoodSource == Source(RowsABC, FALSE, 0)

InitRoster ==
    /\ Start
    /\ DEFAULT_QUEUE_ID = "q"
    /\ ALERT_CHANNEL_ID = 1
    /\ call \in { Call("load", src) : src \in GeneratedSources }

NextRoster ==
    \/ nready = 0 /\ on_ready(GoodSource) /\ UNCHANGED call
    \/ /\ nready = 0
       /\ ~call.done
       /\ on_ready(call.args)
       /\ call' = [call EXCEPT !.done = TRUE]
    \/ /\ nready > 0
       /\ ~call.done
       /\ reload_groups_command(call.args)
       /\ call' = [call EXCEPT !.done = TRUE]

SpecRoster == InitRoster /\ [][NextRoster]_vars

(***************************************************************************)
(* SpecPure: the detector, the change tracker and the formatter applied    *)
(* to every input of a bounded family.  The overlap mappings given to the  *)
(* change tracker are results of the detector, the previous one possibly   *)
(* under another roster.                                                   *)
(***************************************************************************)
NetidLists == SeqsUpTo(NetIds, MaxNetids)
PureSources == { src \in Sources : ~src.raises }

DetectCalls ==
    { Call("detect", [netids |-> n, src |-> s]) : n \in NetidLists, s \in PureSources }
DiffCalls ==
    { Call("diff", [netids |-> n, src |-> s, prev_netids |-> pn, prev_src |-> ps]) :
        n \in NetidLists, s \in PureSources, pn \in NetidLists, ps \in PureSources }
\* the formatter is given the overlap of an identifier list of up to
\* MaxNetids + 1 entries under the roster of src, and the roster of `roster`
FormatCalls ==
    { Call("format", [netids |-> n, src |-> s, roster |-> r]) :
        n \in SeqsUpTo(NetIds, MaxNetids + 1), s \in PureSources, r \in PureSources }

detect_under(netids, src) ==
    LET v == load_groups_from_csv(src)
    IN  check_group_members_in_queue(netids, v.n2g, v.g2m)

current_of(c) == detect_under(c.args.netids, c.args.src)
previous_of(c) == detect_under(c.args.prev_netids, c.args.prev_src)

InitPure ==
    /\ Start
    /\ DEFAULT_QUEUE_ID = "q"
    /\ ALERT_CHANNEL_ID = 1
    /\ call \in DetectCalls \cup DiffCalls \cup FormatCalls

apply_detect ==
    /\ call.fn = "detect" /\ ~call.done
    /\ call' = [call EXCEPT !.result = current_of(call), !.done = TRUE]
    /\ UNCHANGED sys_vars

apply_diff ==
    /\ call.fn = "diff" /\ ~call.done
    /\ call' = [call EXCEPT !.result = new_groups_of(current_of(call), previous_of(call)),
                            !.done = TRUE]
    /\ UNCHANGED sys_vars

apply_format ==
    /\ call.fn = "format" /\ ~call.done
    /\ call' = [call EXCEPT
                   !.result = format_groups_message(
                                  current_of(call),
                                  load_groups_from_csv(call.args.roster).g2m),
                   !.done = TRUE]
    /\ UNCHANGED sys_vars

NextPure == apply_detect \/ apply_diff \/ apply_format

SpecPure == InitPure /\ [][NextPure]_vars

(***************************************************************************)
(* SpecInterval: the polling loop and the set-interval command.  The       *)
(* startup interval is the default or a value of the environment, which    *)
(* line 22 does not compare with the floor.  call records the startup      *)
(* interval and the latest request: the seconds asked for (args.seconds)   *)
(* and the interval the command found (result).                            *)
(***************************************************************************)
StartupIntervals == { DEFAULT_CHECK_INTERVAL, MIN_INTERVAL - 1 }

IntervalRequests ==
    { 0 - MIN_INTERVAL, 0, MIN_INTERVAL - 1, MIN_INTERVAL, MIN_INTERVAL + 1,
      DEFAULT_CHECK_INTERVAL + MIN_INTERVAL }

NextInterval ==
    \/ \E src \in Sources : nready = 0 /\ on_ready(src) /\ UNCHANGED call
    \/ \E t \in Tasks : loop_iteration(t) /\ UNCHANGED call
    \/ \E t \in Tasks, resp \in LoopResponses, found \in BOOLEAN :
           fetch_return(t, resp, found) /\ UNCHANGED call
    \/ \E t \in Tasks, ok \in BOOLEAN : send_return(t, ok) /\ UNCHANGED call
    \/ \E t \in Tasks : timer_expiry(t) /\ UNCHANGED call
    \/ \E seconds \in IntervalRequests :
           /\ set_interval_command(seconds)
           /\ call' = [fn |-> "setinterval",
                       args |-> [seconds |-> seconds, startup |-> call.args.startup],
                       result |-> CHECK_INTERVAL, done |-> TRUE]

InitInterval ==
    \E interval \in StartupIntervals :
        /\ StartWith(interval)
        /\ call = [fn |-> "none", args |-> [seconds |-> interval, startup |-> interval],
                   result |-> interval, done |-> FALSE]

SpecInterval == InitInterval /\ [][NextInterval]_vars

(***************************************************************************)
(* SpecDetect: the detector called on the roster store as the running bot  *)
(* holds it.  call.args is the identifier list; the detector is applied    *)
(* to it at most MaxDetect times, at any point of the polling loop, and    *)
(* call.result records each application: the two views it was given and    *)
(* the mapping it returned.                                                *)
(***************************************************************************)
MaxDetect == 2

InitDetect ==
    /\ Start
    /\ DEFAULT_QUEUE_ID = "q"
    /\ ALERT_CHANNEL_ID = 1
    /\ call \in { Call("detect", netids) : netids \in NetidLists }

apply_detect_on_roster ==
    /\ call.fn = "detect"
    /\ Len(call.result) < MaxDetect
    /\ call' = [call EXCEPT
                   !.result = Append(@, [n2g |-> netid_to_group,
                                         g2m |-> group_to_members,
                                         out |-> check_group_members_in_queue(
                                                     call.args, netid_to_group,
                                                     group_to_members)]),
                   !.done = TRUE]
    /\ UNCHANGED sys_vars

NextDetect ==
    \/ \E src \in Sources : nready = 0 /\ on_ready(src) /\ UNCHANGED call
    \/ \E t \in Tasks : loop_iteration(t) /\ UNCHANGED call
    \/ \E t \in Tasks, resp \in LoopResponses, found \in BOOLEAN :
           fetch_return(t, resp, found) /\ UNCHANGED call
    \/ \E t \in Tasks, ok \in BOOLEAN : send_return(t, ok) /\ UNCHANGED call
    \/ \E t \in Tasks : timer_expiry(t) /\ UNCHANGED call
    \/ apply_detect_on_roster

SpecDetect == InitDetect /\ [][NextDetect]_vars

(***************************************************************************)
(* SpecReappear: consecutive polling cycles under one roster, with the     *)
(* alert sink configured and its channel found.  call.args records the     *)
(* Overlap Results of the last two cycles that fetched, the older first    *)
(* (the empty mapping for an empty snapshot or a failed fetch).            *)
(***************************************************************************)
last_two(h) == IF Len(h) > 2 THEN Tail(h) ELSE h

InitReappear ==
    /\ Start
    /\ ALERT_CHANNEL_ID = 1
    /\ call = Call("cycles", <<>>)

NextReappear ==
    \/ \E src \in Sources : nready = 0 /\ on_ready(src) /\ UNCHANGED call
    \/ \E t \in Tasks : loop_iteration(t) /\ UNCHANGED call
    \/ \E t \in Tasks, resp \in LoopResponses :
           /\ fetch_return(t, resp, TRUE)
           /\ call' = [call EXCEPT !.args = last_two(Append(@, obs'.overlap))]
    \/ \E t \in Tasks, ok \in BOOLEAN : send_return(t, ok) /\ UNCHANGED call
    \/ \E t \in Tasks : timer_expiry(t) /\ UNCHANGED call

SpecReappear == InitReappear /\ [][NextReappear]_vars

(***************************************************************************)
(* SpecReady: the chat platform delivers up to MaxReady ready events (one  *)
(* at connection, one more after each reconnect whose session could not    *)
(* be resumed); each runs on_ready, which loads the roster and creates a   *)
(* polling task.  The sink is configured and the queue id set.             *)
(***************************************************************************)
InitReady ==
    /\ Start
    /\ DEFAULT_QUEUE_ID = "q"
    /\ ALERT_CHANNEL_ID = 1
    /\ call = NoCall

NextReady ==
    \/ \E src \in Sources : on_ready(src) /\ UNCHANGED call
    \/ \E t \in Tasks : loop_iteration(t) /\ UNCHANGED call
    \/ \E t \in Tasks, resp \in LoopResponses, found \in BOOLEAN :
           fetch_return(t, resp, found) /\ UNCHANGED call
    \/ \E t \in Tasks, ok \in BOOLEAN : send_return(t, ok) /\ UNCHANGED call
    \/ \E t \in Tasks : timer_expiry(t) /\ UNCHANGED call

SpecReady == InitReady /\ [][NextReady]_vars

(***************************************************************************)
(* SpecGate: the polling loop while the roster is loaded, emptied and      *)
(* loaded again.  call records the history of the roster store: fn is      *)
(* "emptied" while the store is empty, "reloaded" from the load of a       *)
(* non-empty roster to the first return of a fetch after it, "cycled"      *)
(* from then on; args is Previous-Cycle State as it was when the store     *)
(* last became empty, result whether a polling task was then inside a      *)
(* cycle (awaiting its fetch or its send).                                 *)
(***************************************************************************)
in_flight == \E t \in Tasks : pc[t] \in {"fetch", "send"}

InitGate ==
    /\ Start
    /\ call = [fn |-> "emptied", args |-> EmptyDict, result |-> FALSE, done |-> FALSE]

roster_assigned ==
    call' = IF group_to_members' = <<>>
            THEN IF group_to_members # <<>>
                 THEN [fn |-> "emptied", args |-> previous_groups_in_queue,
                       result |-> in_flight, done |-> FALSE]
                 ELSE call
            ELSE IF call.fn = "emptied"
                 THEN [call EXCEPT !.fn = "reloaded"]
                 ELSE call

NextGate ==
    \/ \E src \in Sources : nready = 0 /\ on_ready(src) /\ roster_assigned
    \/ \E t \in Tasks : loop_iteration(t) /\ UNCHANGED call
    \/ \E t \in Tasks, resp \in LoopResponses, found \in BOOLEAN :
           /\ fetch_return(t, resp, found)
           /\ call' = IF call.fn = "reloaded" THEN [call EXCEPT !.fn = "cycled"] ELSE call
    \/ \E t \in Tasks, ok \in BOOLEAN : send_return(t, ok) /\ UNCHANGED call
    \/ \E t \in Tasks : timer_expiry(t) /\ UNCHANGED call
    \/ \E src \in Sources : reload_groups_command(src) /\ roster_assigned

SpecGate == InitGate /\ [][NextGate]_vars

(***************************************************************************)
(* Steps of a polling task, for the properties below.                      *)
(***************************************************************************)
\* task t leaves the fetch: detect, diff and the decision to alert happen
fetch_step(t) == pc[t] = "fetch" /\ pc'[t] # "fetch"
\* task t ends a polling cycle that fetched
cycle_end(t) == pc[t] \in {"fetch", "send"} /\ pc'[t] \in {"sleep", "recover"}

Idle(t) == pc[t] \in {"sleep", "recover"}
Checking(t) == pc[t] \in {"run", "fetch", "send"}

\* every entry of an overlap mapping lists at least two members
at_least_two(d) == \A i \in DOMAIN d : Len(d[i].members) >= 2

\* the in-queue lines of a message, as an overlap mapping
RECURSIVE groups_of(_)
groups_of(message) ==
    IF message = <<>> THEN <<>>
    ELSE IF Head(message).kind = "in_queue"
         THEN << [group_id |-> Head(message).group_id, members |-> Head(message).members] >>
              \o groups_of(Tail(message))
         ELSE groups_of(Tail(message))

(***************************************************************************)
(* C1.  At the end of every polling cycle Previous-Cycle State equals the  *)
(* full overlap result of that cycle, also when the snapshot was empty,    *)
(* the fetch failed (overlap result empty) or nothing new was found.       *)
(* Stated for the cycles that end without an error, which are the cases    *)
(* the claim names; the code returns at line 216 without reaching line     *)
(* 256.  (A cycle whose send raises leaves line 256 out as well.)          *)
(***************************************************************************)
C1_PreviousReplacedEveryCycle ==
    [][\A t \in Tasks :
           cycle_end(t) /\ pc'[t] = "sleep"
           => previous_groups_in_queue' = obs'.overlap]_vars

(***************************************************************************)
(* C3.  No repeat alert: when two consecutive polling cycles observe the   *)
(* same snapshot under the same roster, the second cycle's diff output is  *)
(* empty and it dispatches no alert, whatever happened in the first.       *)
(* Under SpecRepeat every cycle observes the same snapshot and roster, so  *)
(* every fetch that follows an earlier fetch is a second cycle.            *)
(***************************************************************************)
C3_NoRepeatAlert ==
    [][\A t \in Tasks :
           fetch_step(t) /\ obs.fetch = "ok"
           => obs'.new_groups = EmptyDict /\ pc'[t] # "send"]_vars

(***************************************************************************)
(* C4.  The polling loop has no terminal state: a task that is Checking    *)
(* always becomes Idle again, whatever the cycle did, and a task that is   *)
(* Idle always starts another iteration.                                   *)
(***************************************************************************)
C4_LoopNeverTerminates ==
    \A t \in Tasks :
        /\ Checking(t) ~> Idle(t)
        /\ Idle(t) ~> (pc[t] = "run")

\* a cycle raised (the send failed) and the task is in its recovery sleep
C4_Witness == \E t \in Tasks : pc[t] = "recover" /\ previous_groups_in_queue # EmptyDict

(***************************************************************************)
(* C5.  A cycle whose fetch raises or returns a non-success status ends    *)
(* like a cycle with zero waiting identifiers: no overlap, nothing new,    *)
(* no alert dispatched (the task does not reach the send), and no error    *)
(* reaches the loop (the task goes to its normal sleep, not to recovery).  *)
(***************************************************************************)
C5_FetchFailureNotFatal ==
    [][\A t \in Tasks :
           fetch_step(t) /\ obs'.fetch \in {"status", "exception"}
           => /\ pc'[t] = "sleep"
              /\ obs'.overlap = EmptyDict
              /\ obs'.new_groups = EmptyDict
              /\ frame' = frame]_vars

\* a fetch failed while an overlap was on record, and the task sleeps
C5_Witness ==
    \E t \in Tasks :
        /\ obs.fetch \in {"status", "exception"}
        /\ pc[t] = "sleep"
        /\ previous_groups_in_queue # EmptyDict

(***************************************************************************)
(* C6.  Threshold: every group of an overlap result has at least two       *)
(* members in its list, and a group with exactly one queued member is in   *)
(* no overlap result, hence not in Previous-Cycle State and in no alert.   *)
(* Members are counted per queue entry: a duplicate entry counts again.    *)
(* Under SpecRepeat the snapshot is call.args.                             *)
(***************************************************************************)
queued_of(group_id) ==
    LET netids == extract_netids(call.args)
    IN  { i \in DOMAIN netids :
            netids[i] \in DOMAIN netid_to_group /\ netid_to_group[netids[i]] = group_id }

overlaps_in_state ==
    { previous_groups_in_queue, obs.overlap, obs.new_groups }
    \cup { frame[t].groups_in_queue : t \in Tasks }
    \cup { groups_of(frame[t].message) : t \in Tasks }

C6_Threshold ==
    \A d \in overlaps_in_state :
        /\ at_least_two(d)
        /\ \A g \in Keys(d) : Cardinality(queued_of(g)) # 1

\* a cycle has run on a snapshot with exactly one member of group 1 and
\* exactly one member of group 2 queued
C6_Witness ==
    /\ obs.fetch = "ok"
    /\ \E t \in Tasks : pc[t] = "sleep"
    /\ Cardinality(queued_of(1)) = 1
    /\ Cardinality(queued_of(2)) = 1
    /\ previous_groups_in_queue = EmptyDict

(***************************************************************************)
(* C7.  As claimed: the read-diff-replace sequence on Previous-Cycle State *)
(* is atomic, no other task runs between the diff's read and the           *)
(* replacement: once a polling task has read the previous state for the    *)
(* diff and not yet replaced it, the next step is its own.                 *)
(***************************************************************************)
C7_ReadDiffReplaceAtomic ==
    [][\A t \in Tasks : pc[t] = "send" => pc'[t] # "send"]_vars

(***************************************************************************)
(* C7, amended.  A polling task is suspended at the send between the read  *)
(* and the replacement, and other tasks run there; but no command          *)
(* (on-demand check, roster reload, set-interval) writes Previous-Cycle    *)
(* State: it changes only in the step in which a polling task ends a       *)
(* cycle and goes to its normal sleep.                                     *)
(***************************************************************************)
C7_OnlyCyclesWritePrevious ==
    [][previous_groups_in_queue' # previous_groups_in_queue
       => \E t \in Tasks : cycle_end(t) /\ pc'[t] = "sleep"]_vars

\* a polling task is suspended at the send while an on-demand check has
\* run its detection and the interval was changed
C7_Witness ==
    \E t \in Tasks :
        /\ pc[t] = "send"
        /\ cmd.pc = "reply"
        /\ CHECK_INTERVAL = MIN_INTERVAL
        /\ previous_groups_in_queue # EmptyDict

(***************************************************************************)
(* C8.  Roster reload is atomic: in every state a task can run in, the     *)
(* identifier->group view and the group->members view come from one load,  *)
(* and every message formatted by a polling cycle or an on-demand check    *)
(* agrees, in its groups and in its not-in-queue lines, with the two       *)
(* views of one load.                                                      *)
(***************************************************************************)
message_of_one_load(message, v) ==
    LET groups == groups_of(message)
    IN  /\ \A i \in DOMAIN groups :
              \A m \in Range(groups[i].members) :
                  m \in DOMAIN v.n2g /\ v.n2g[m] = groups[i].group_id
        /\ message = format_groups_message(groups, v.g2m)

Loads == { load_groups_from_csv(src) : src \in Sources }

C8_ReloadAtomic ==
    /\ \E v \in Loads : netid_to_group = v.n2g /\ group_to_members = v.g2m
    /\ \A t \in Tasks :
           pc[t] = "send" => \E v \in Loads : message_of_one_load(frame[t].message, v)
    /\ cmd.pc = "reply" => \E v \in Loads : message_of_one_load(cmd.message, v)

\* the roster was reloaded between the detect-and-format step of a polling
\* cycle and that of an on-demand check: no single load explains both messages
C8_Witness ==
    \E t \in Tasks :
        /\ pc[t] = "send"
        /\ cmd.pc = "reply"
        /\ cmd.message # NO_GROUPS_MESSAGE
        /\ ~ \E v \in Loads : /\ message_of_one_load(frame[t].message, v)
                              /\ message_of_one_load(cmd.message, v)

(***************************************************************************)
(* C2.  The change tracker's output contains a group exactly when the      *)
(* group is in current and is either absent from previous or has a         *)
(* current member set that is not a subset of its previous member set;     *)
(* the value reported for it is its full current member list.              *)
(***************************************************************************)
C2_ChangeTracker ==
    call.fn = "diff" /\ call.done
    => LET current == current_of(call)
           previous == previous_of(call)
           out == call.result
       IN  /\ Keys(out) =
                  { g \in Keys(current) :
                      \/ g \notin Keys(previous)
                      \/ ~(Range(Lookup(current, g)) \subseteq Range(Lookup(previous, g))) }
           /\ Len(out) = Cardinality(Keys(out))
           /\ \A g \in Keys(out) : Lookup(out, g) = Lookup(current, g)

\* previous = {G: [a,b]}, current = {G: [a,c]}: G is reported with [a,c]
C2_Witness ==
    /\ call.fn = "diff" /\ call.done
    /\ previous_of(call) = << [group_id |-> 1, members |-> <<"a", "b">>] >>
    /\ current_of(call) = << [group_id |-> 1, members |-> <<"a", "c">>] >>
    /\ call.result = << [group_id |-> 1, members |-> <<"a", "c">>] >>

(***************************************************************************)
(* C9.  As claimed: after a load whose source cannot be parsed both views  *)
(* of the roster store are empty.  The code returns at line 110 what the   *)
(* rows read before the exception put into the two views.                  *)
(***************************************************************************)
C9_FailedLoadYieldsEmptyViews ==
    call.fn = "load" /\ call.done /\ call.args.raises
    => netid_to_group = <<>> /\ group_to_members = <<>>

(***************************************************************************)
(* C10.  Roster store invariant: every identifier of the identifier->group *)
(* view maps to a group that exists in the group->members view and whose   *)
(* member list contains the identifier.                                    *)
(***************************************************************************)
C10_RosterInvariant ==
    \A x \in DOMAIN netid_to_group :
        /\ netid_to_group[x] \in DOMAIN group_to_members
        /\ x \in Range(group_to_members[netid_to_group[x]])

\* an identifier of two rows, mapped to the later one, in a source whose
\* first row also holds a cell with no text
C10_Witness ==
    /\ call.fn = "load" /\ call.done
    /\ \E x \in DOMAIN netid_to_group :
           /\ netid_to_group[x] = 2
           /\ 1 \in DOMAIN group_to_members
           /\ x \in Range(group_to_members[1])
           /\ x \in Range(group_to_members[2])
    /\ \E i \in DOMAIN call.args.rows[1] : strip(call.args.rows[1][i]) = ""

(***************************************************************************)
(* C11.  The set-interval command enforces the floor: a request below      *)
(* MIN_INTERVAL leaves the interval as the command found it, a request at  *)
(* or above it sets the interval to exactly the requested value; hence the *)
(* interval is always its startup value or a value at or above the floor.  *)
(***************************************************************************)
C11_IntervalFloor ==
    /\ call.fn = "setinterval"
       => IF call.args.seconds < MIN_INTERVAL
          THEN CHECK_INTERVAL = call.result
          ELSE CHECK_INTERVAL = call.args.seconds
    /\ CHECK_INTERVAL = call.args.startup \/ CHECK_INTERVAL >= MIN_INTERVAL

\* a request just below the floor was rejected after an accepted request had
\* changed the interval, while a polling task sleeps
C11_Witness ==
    /\ call.fn = "setinterval"
    /\ call.args.seconds = MIN_INTERVAL - 1
    /\ call.result = MIN_INTERVAL + 1
    /\ CHECK_INTERVAL = MIN_INTERVAL + 1
    /\ \E t \in Tasks : pc[t] = "sleep"

(***************************************************************************)
(* C12.  As claimed: with an alert sink configured, every polling cycle    *)
(* whose change-tracker output is non-empty dispatches an alert (the task  *)
(* reaches the send) that covers exactly the groups of that output, and    *)
(* the cycle does not put the overlap into Previous-Cycle State before     *)
(* the alert is dispatched.  When bot.get_channel does not find the        *)
(* configured channel, lines 248-253 send nothing and line 256 records     *)
(* the overlap all the same.                                               *)
(***************************************************************************)
C12_NewOverlapAlerted ==
    [][\A t \in Tasks :
           fetch_step(t) /\ ALERT_CHANNEL_ID > 0 /\ obs'.new_groups # EmptyDict
           => /\ pc'[t] = "send"
              /\ groups_of(frame'[t].message) = obs'.new_groups
              /\ previous_groups_in_queue' = previous_groups_in_queue]_vars

(***************************************************************************)
(* C13.  The polling loop sends nothing when there is nothing new: a       *)
(* cycle whose change-tracker output is empty does not reach the send, a   *)
(* polling task reaches the send only from a fetch, and no message a       *)
(* polling task sends holds the "no groups" sentence, which only the       *)
(* on-demand check produces.                                               *)
(***************************************************************************)
C13_NothingNewNothingSent ==
    [][\A t \in Tasks :
           /\ fetch_step(t) /\ obs'.new_groups = EmptyDict => pc'[t] # "send"
           /\ pc'[t] = "send" => pc[t] \in {"fetch", "send"}
           /\ pc'[t] = "send"
              => \A i \in DOMAIN frame'[t].message :
                     frame'[t].message[i].kind # "no_groups"]_vars

\* a cycle found an overlap that was not new and sleeps without having
\* sent, while an on-demand check replies with the "no groups" sentence
C13_Witness ==
    \E t \in Tasks :
        /\ pc[t] = "sleep"
        /\ ALERT_CHANNEL_ID > 0
        /\ obs.fetch = "ok"
        /\ obs.overlap # EmptyDict
        /\ obs.new_groups = EmptyDict
        /\ cmd.pc = "reply"
        /\ cmd.message = NO_GROUPS_MESSAGE

(***************************************************************************)
(* C14.  The detector equals the reference: the groups of its result are   *)
(* exactly the groups to which at least two entries of the identifier      *)
(* list map, each once, in the order in which the groups first occur; the  *)
(* list of a group is the identifier list restricted to the identifiers    *)
(* that map to the group, duplicates kept, in input order; identifiers     *)
(* absent from the roster contribute nothing.  Two applications to the     *)
(* same inputs return the same mapping, and an application changes neither *)
(* the roster store nor Previous-Cycle State.                              *)
(***************************************************************************)
entries_of(netids, n2g, g) ==
    SelectSeq(netids, LAMBDA n : n \in DOMAIN n2g /\ n2g[n] = g)

first_entry(netids, n2g, g) ==
    CHOOSE i \in DOMAIN netids :
        /\ netids[i] \in DOMAIN n2g /\ n2g[netids[i]] = g
        /\ \A j \in 1 .. i - 1 : ~(netids[j] \in DOMAIN n2g /\ n2g[netids[j]] = g)

is_reference_detect(out, netids, n2g) ==
    /\ Keys(out) = { g \in { n2g[x] : x \in DOMAIN n2g } :
                        Len(entries_of(netids, n2g, g)) >= 2 }
    /\ Len(out) = Cardinality(Keys(out))
    /\ \A i \in DOMAIN out : out[i].members = entries_of(netids, n2g, out[i].group_id)
    /\ \A i, j \in DOMAIN out :
           i < j => first_entry(netids, n2g, out[i].group_id)
                    < first_entry(netids, n2g, out[j].group_id)

C14_DetectReference ==
    [][/\ call.fn = "detect"
          => /\ \A i \in DOMAIN call'.result :
                    is_reference_detect(call'.result[i].out, call.args,
                                        call'.result[i].n2g)
             /\ \A i, j \in DOMAIN call'.result :
                    /\ call'.result[i].n2g = call'.result[j].n2g
                    /\ call'.result[i].g2m = call'.result[j].g2m
                    => call'.result[i].out = call'.result[j].out
       /\ call' # call
          => UNCHANGED <<netid_to_group, group_to_members, previous_groups_in_queue>>]_vars

\* the detector ran twice on [a, c, a] under a roster that maps a to group 1
\* and does not hold c, with an overlap on record as Previous-Cycle State:
\* both times it returned {1: [a, a]}
C14_Witness ==
    /\ call.fn = "detect"
    /\ call.args = <<"a", "c", "a">>
    /\ "c" \notin DOMAIN netid_to_group
    /\ previous_groups_in_queue # EmptyDict
    /\ Len(call.result) = 2
    /\ \A i \in DOMAIN call.result :
           /\ call.result[i].n2g = netid_to_group
           /\ call.result[i].out = << [group_id |-> 1, members |-> <<"a", "a">>] >>

(***************************************************************************)
(* C15.  For a non-empty overlap result the message is a header followed   *)
(* by one block per group of the overlap result, in its insertion order:   *)
(* the group label, then the group's queued members as the overlap result  *)
(* lists them, then a "not in queue" line exactly when some roster member  *)
(* of the group is not among the queued members, listing exactly those     *)
(* members in roster order.  End to end: roster Group 1 = [a, b],          *)
(* Group 2 = [c], snapshot [a, b, c], empty previous state: the diff is    *)
(* {1: [a, b]} and the message names group 1 with a and b in queue and     *)
(* has no "not in queue" line.                                             *)
(***************************************************************************)
absent_members(d, g2m, g) ==
    IF g \in DOMAIN g2m
    THEN SelectSeq(g2m[g], LAMBDA m : \A k \in DOMAIN Lookup(d, g) : Lookup(d, g)[k] # m)
    ELSE <<>>

lines_of(message, kind) == SelectSeq(message, LAMBDA l : l.kind = kind)

is_reference_message(message, d, g2m) ==
    /\ message[1] = [kind |-> "header"]
    /\ lines_of(message, "header") = << [kind |-> "header"] >>
    /\ lines_of(message, "no_groups") = <<>>
    /\ groups_of(message) = d
    /\ Len(lines_of(message, "group")) = Len(d)
    /\ \A i \in DOMAIN d : lines_of(message, "group")[i].group_id = d[i].group_id
    /\ \A i \in DOMAIN message :
           /\ message[i].kind = "in_queue"
              => /\ message[i - 1].kind = "group"
                 /\ message[i - 1].group_id = message[i].group_id
           /\ message[i].kind = "not_in_queue"
              => /\ message[i - 1].kind = "in_queue"
                 /\ message[i - 1].group_id = message[i].group_id
                 /\ message[i].members = absent_members(d, g2m, message[i].group_id)
    /\ \A g \in Keys(d) :
           absent_members(d, g2m, g) # <<>>
           <=> \E i \in DOMAIN message :
                   message[i].kind = "not_in_queue" /\ message[i].group_id = g
    /\ Len(message) = 1 + 2 * Len(d) + Len(lines_of(message, "not_in_queue"))

E2ESource == Source(RowsE2E, FALSE, 0)

C15_Formatter ==
    /\ call.fn = "format" /\ call.done /\ current_of(call) # EmptyDict
       => is_reference_message(call.result, current_of(call),
                               load_groups_from_csv(call.args.roster).g2m)
    /\ /\ call.fn = "format" /\ call.done
       /\ call.args = [netids |-> <<"a", "b", "c">>, src |-> E2ESource, roster |-> E2ESource]
       => call.result = << [kind |-> "header"],
                           [kind |-> "group", group_id |-> 1, members |-> <<>>],
                           [kind |-> "in_queue", group_id |-> 1, members |-> <<"a", "b">>] >>
    /\ /\ call.fn = "diff" /\ call.done
       /\ call.args = [netids |-> <<"a", "b", "c">>, src |-> E2ESource,
                       prev_netids |-> <<>>, prev_src |-> E2ESource]
       => /\ current_of(call) = << [group_id |-> 1, members |-> <<"a", "b">>] >>
          /\ call.result = << [group_id |-> 1, members |-> <<"a", "b">>] >>

\* two groups overlap, the later roster row first: group 3 with all its
\* members queued, group 1 with a queued twice and b not queued as its member
C15_Witness ==
    /\ call.fn = "format" /\ call.done
    /\ call.args.netids = <<"c", "a", "b", "a">>
    /\ call.result = << [kind |-> "header"],
                        [kind |-> "group", group_id |-> 3, members |-> <<>>],
                        [kind |-> "in_queue", group_id |-> 3, members |-> <<"c", "b">>],
                        [kind |-> "group", group_id |-> 1, members |-> <<>>],
                        [kind |-> "in_queue", group_id |-> 1, members |-> <<"a", "a">>],
                        [kind |-> "not_in_queue", group_id |-> 1, members |-> <<"b">>] >>

(***************************************************************************)
(* C16.  As claimed: a group that was in the Overlap Result two cycles     *)
(* ago, was not in the Overlap Result of the cycle before, and is in this  *)
(* cycle's Overlap Result is in this cycle's change-tracker output, and    *)
(* the cycle dispatches an alert (the task reaches the send).  When the    *)
(* cycle in between saw an empty queue or a failed fetch, it returned at   *)
(* line 216 and left the group in Previous-Cycle State, so the third       *)
(* cycle does not find it new.                                             *)
(***************************************************************************)
C16_ReappearingAlerted ==
    [][\A t \in Tasks :
           fetch_step(t) /\ Len(call.args) = 2
           => \A g \in Keys(obs'.overlap) :
                  g \in Keys(call.args[1]) /\ g \notin Keys(call.args[2])
                  => g \in Keys(obs'.new_groups) /\ pc'[t] = "send"]_vars

(***************************************************************************)
(* C17.  As claimed: whatever the number of ready events, at most one      *)
(* polling task exists, so no two polling tasks are inside a cycle at the  *)
(* same time and no two are suspended at the send with an alert for the    *)
(* same groups, both having diffed against the same Previous-Cycle State.  *)
(* on_ready creates a task at line 174 each time it runs.                  *)
(***************************************************************************)
polling_tasks == { t \in Tasks : pc[t] # "none" }

C17_SinglePollingLoop ==
    /\ Cardinality(polling_tasks) <= 1
    /\ \A t, u \in Tasks :
           t # u => ~(pc[t] \in {"fetch", "send"} /\ pc[u] \in {"fetch", "send"})
    /\ \A t, u \in Tasks :
           t # u /\ pc[t] = "send" /\ pc[u] = "send"
           => groups_of(frame[t].message) # groups_of(frame[u].message)

(***************************************************************************)
(* C18.  An on-demand check has no effect on what the polling loop works   *)
(* with: every step of the command task, whatever its outcome, leaves      *)
(* Previous-Cycle State, both views of the roster store, the position and  *)
(* the locals of every polling task and the polling interval unchanged.    *)
(* The polling task reads nothing else, so its alerts are the same with    *)
(* and without the check.                                                  *)
(***************************************************************************)
C18_OnDemandCheckFrame ==
    [][cmd' # cmd
       => UNCHANGED <<previous_groups_in_queue, netid_to_group, group_to_members,
                      pc, frame, obs, CHECK_INTERVAL>>]_vars

\* an on-demand check replies with an overlap while the polling task, in a
\* later cycle, awaits its fetch and Previous-Cycle State holds no overlap
C18_Witness ==
    \E t \in Tasks :
        /\ pc[t] = "fetch"
        /\ obs.fetch # "none"
        /\ previous_groups_in_queue = EmptyDict
        /\ cmd.pc = "reply"
        /\ groups_of(cmd.message) # EmptyDict

(***************************************************************************)
(* C19.  As claimed: an iteration that a polling task starts on timer      *)
(* expiry while the roster store is empty performs no fetch, dispatches no *)
(* alert and leaves Previous-Cycle State unchanged; and the first cycle    *)
(* after a non-empty roster is loaded diffs against Previous-Cycle State   *)
(* as it was when the store became empty.  A cycle that awaits its fetch   *)
(* or its send when a reload empties the store completes under the empty   *)
(* roster and replaces the state, so the first cycle after the load diffs  *)
(* against another state than the one recorded before.                     *)
(***************************************************************************)
enters_cycle(t) == pc'[t] \in {"fetch", "send"} /\ pc'[t] # pc[t]

C19_EmptyRosterGating ==
    [][/\ \A t \in Tasks :
              pc[t] = "run" /\ pc'[t] # "run" /\ group_to_members = <<>>
              => /\ pc'[t] = "sleep"
                 /\ UNCHANGED <<previous_groups_in_queue, frame, obs>>
       /\ \A t \in Tasks :
              fetch_step(t) /\ call.fn = "reloaded"
              => obs'.new_groups = new_groups_of(obs'.overlap, call.args)]_vars

(***************************************************************************)
(* C19, amended.  An iteration that starts while the roster store is       *)
(* empty fetches nothing, sends nothing and leaves Previous-Cycle State    *)
(* unchanged; while the store is empty no task starts a fetch or a send,   *)
(* and Previous-Cycle State changes only when a cycle that was already in  *)
(* flight completes.  Loading a roster never changes Previous-Cycle State: *)
(* the first cycle after a non-empty load diffs against the state as it    *)
(* is then, which is the state of the moment the store became empty        *)
(* whenever no cycle was in flight at that moment.                         *)
(***************************************************************************)
C19_GatedIterations ==
    [][/\ \A t \in Tasks :
              pc[t] = "run" /\ pc'[t] # "run" /\ group_to_members = <<>>
              => /\ pc'[t] = "sleep"
                 /\ UNCHANGED <<previous_groups_in_queue, frame, obs>>
       /\ group_to_members = <<>> /\ group_to_members' = <<>>
          => /\ \A t \in Tasks : ~enters_cycle(t)
             /\ previous_groups_in_queue' # previous_groups_in_queue
                => call.result /\ \E t \in Tasks : cycle_end(t)
       /\ group_to_members' # group_to_members
          => previous_groups_in_queue' = previous_groups_in_queue
       /\ \A t \in Tasks :
              fetch_step(t) /\ call.fn = "reloaded"
              => /\ obs'.new_groups
                    = new_groups_of(obs'.overlap, previous_groups_in_queue)
                 /\ ~call.result => previous_groups_in_queue = call.args]_vars

\* the store was emptied with an overlap on record and no cycle in flight,
\* iterations passed, a roster was loaded, and the first cycle found the
\* same group overlapping and nothing new
C19_Witness ==
    /\ call.fn = "cycled"
    /\ ~call.result
    /\ call.args # EmptyDict
    /\ obs.overlap # EmptyDict
    /\ Keys(obs.overlap) = Keys(call.args)
    /\ obs.new_groups = EmptyDict

====
